---- MODULE Spec2Model ----
(***************************************************************************)
(* A model of three parts of oidc-agent:                                   *)
(*   - src/utils/crypt/cryptUtils.c  : loading and saving encrypted        *)
(*     configuration text, and randomString;                               *)
(*   - src/oidc-agent/oidcd/jose/oidc_jwk.c : JWK import and creation;     *)
(*   - src/oidc-add/oidc-add_options.h : the argp callback of oidc-add.    *)
(* C strings are sequences of one-character strings; a NULL char* is the   *)
(* value NULL.  Each part has its own specification (SpecCrypt, SpecJwk,   *)
(* SpecArgs, SpecRandom); the variables of the other parts stay put.       *)
(***************************************************************************)
EXTENDS Integers, Sequences, FiniteSets, TLC

VARIABLES
  oidc_errno,    \* the global error variable (utils/oidc_error.h)
  \* ---- cryptUtils.c: decrypt / encrypt ----
  call,          \* the last call made: its function and arguments
  ret,           \* what the last call returned (a string, or NULL)
  invoked,       \* the decoders the last call invoked, in order
  strtok_olds,   \* strtok's static save pointer: the text it points at, and
                 \* whether that text's buffer was released
  heapLive,      \* working copies (oidc_strcopy) not yet secFree'd
  crashed,       \* the process died (NULL or wild pointer dereference)
  fileContent,   \* what the last encryptWithVersionLine returned
  saved,         \* what that call was given, and the envelope it built
  ncalls,        \* calls made so far
  \* ---- oidc_jwk.c ----
  jwkCall,       \* the last call made: its function and what it was given
  jwkRet,        \* what it returned: a key, or the exported key set
  imported,      \* the key texts the last call handed to cjose_jwk_import
  \* ---- oidc-add_options.h ----
  arguments,     \* struct arguments
  arg_num,       \* state->arg_num: positional arguments parsed so far
  argpState,     \* where argp_parse is: parsing, ended, or how it exited
  fed,           \* what argp has fed to parse_opt: options, positionals
  \* ---- cryptUtils.c: randomString ----
  rs_pc,         \* where randomString is
  len,           \* its argument
  str,           \* its buffer
  shifts,        \* its loop counter
  filled         \* the buffer as randomFillBase64UrlSafe last left it

cryptVars == <<call, ret, invoked, strtok_olds, heapLive, crashed,
               fileContent, saved, ncalls>>

jwkVars == <<jwkCall, jwkRet, imported>>

argsVars == <<arguments, arg_num, argpState, fed>>

randVars == <<rs_pc, len, str, shifts, filled>>

vars == <<oidc_errno, cryptVars, jwkVars, argsVars, randVars>>

----------------------------------------------------------------------------
(* Strings.                                                                *)

NULL == <<"NULL">>

Digits == <<"0", "1", "2", "3", "4", "5", "6", "7", "8", "9">>

IsDigit(c) == \E i \in 1..Len(Digits) : Digits[i] = c

DigitVal(c) == (CHOOSE i \in 1..Len(Digits) : Digits[i] = c) - 1

RECURSIVE LeadingDigits(_)
LeadingDigits(s) ==
  IF s = <<>> \/ ~IsDigit(Head(s)) THEN <<>>
  ELSE <<Head(s)>> \o LeadingDigits(Tail(s))

RECURSIVE DigitsToNat(_)
DigitsToNat(ds) ==
  IF ds = <<>> THEN 0
  ELSE DigitsToNat(SubSeq(ds, 1, Len(ds) - 1)) * 10 + DigitVal(ds[Len(ds)])

(* strToInt: the number a string starts with; 0 for NULL and for a string  *)
(* that starts with no digit.                                              *)
strToInt(s) == IF s = NULL THEN 0 ELSE DigitsToNat(LeadingDigits(s))

(* oidc_strcopy: a fresh copy, NULL for NULL.                              *)
oidc_strcopy(s) == s

(* oidc_setArgNullFuncError, oidc_setInternalError (utils/oidc_error.h):   *)
(* the error kind each leaves in oidc_errno.                               *)
oidc_setArgNullFuncError == "OIDC_EARGNULLFUNC"

oidc_setInternalError == "OIDC_EINTERNAL"

(* Position of the first occurrence of d in s, 0 if there is none.         *)
IndexOf(s, d) ==
  IF \E i \in 1..Len(s) : s[i] = d
  THEN CHOOSE i \in 1..Len(s) : s[i] = d /\ \A j \in 1..(i - 1) : s[j] # d
  ELSE 0

(* A plain split on a delimiter: n delimiters give n + 1 fields, empty     *)
(* fields kept.                                                            *)
RECURSIVE SplitFields(_, _)
SplitFields(s, d) ==
  LET i == IndexOf(s, d)
  IN IF i = 0 THEN <<s>>
     ELSE <<SubSeq(s, 1, i - 1)>> \o SplitFields(SubSeq(s, i + 1, Len(s)), d)

(* delimitedStringToList(text, delimiter): the list of the fields of text; *)
(* a NULL string gives no list.                                            *)
delimitedStringToList(text, d) ==
  IF text = NULL THEN [isNull |-> TRUE, items |-> <<>>]
  ELSE [isNull |-> FALSE, items |-> SplitFields(text, d)]

RECURSIVE SkipDelims(_, _)
SkipDelims(s, d) ==
  IF s # <<>> /\ Head(s) = d THEN SkipDelims(Tail(s), d) ELSE s

(* One strtok step on the text the save pointer points at: skip leading    *)
(* delimiters; at the end of the text return NULL; else return the token   *)
(* that ends at the next delimiter, and leave the save pointer after it.   *)
strtok(text, d) ==
  LET s == SkipDelims(text, d)
      i == IndexOf(s, d)
  IN IF s = <<>> THEN [tok |-> NULL, rest |-> <<>>]
     ELSE IF i = 0 THEN [tok |-> s, rest |-> <<>>]
     ELSE [tok |-> SubSeq(s, 1, i - 1), rest |-> SubSeq(s, i + 1, Len(s))]

----------------------------------------------------------------------------
(* Versions (utils/versionUtils.h, defines/settings.h).                    *)

VersionLinePrefix ==
  <<"@", "o", "i", "d", "c", "-", "a", "g", "e", "n", "t", " ">>

MIN_BASE64_VERSION == <<"2", ".", "1", ".", "0">>

HasPrefix(s, p) == Len(s) >= Len(p) /\ SubSeq(s, 1, Len(p)) = p

(* simpleVersionToVersionLine: "@oidc-agent <version>".                    *)
simpleVersionToVersionLine(version) == VersionLinePrefix \o version

(* versionLineToSimpleVersion: the version a version line names; NULL for  *)
(* NULL and for a line that is no version line.                            *)
versionLineToSimpleVersion(version_line) ==
  IF version_line = NULL THEN NULL
  ELSE IF HasPrefix(version_line, VersionLinePrefix)
  THEN SubSeq(version_line, Len(VersionLinePrefix) + 1, Len(version_line))
  ELSE NULL

(* The dotted numeric components of a version; none for a missing one.     *)
VersionComponents(version) ==
  IF version = NULL THEN <<>>
  ELSE LET f == SplitFields(version, ".")
       IN [i \in 1..Len(f) |-> strToInt(f[i])]

Component(cs, i) == IF i <= Len(cs) THEN cs[i] ELSE 0

(* versionAtLeast(a, b): a >= b, component by component, a missing         *)
(* component being 0 and a missing version 0.0.0.                          *)
versionAtLeast(a, b) ==
  LET ca == VersionComponents(a)
      cb == VersionComponents(b)
      n  == IF Len(ca) >= Len(cb) THEN Len(ca) ELSE Len(cb)
      Differ == {i \in 1..n : Component(ca, i) # Component(cb, i)}
  IN IF Differ = {} THEN TRUE
     ELSE LET k == CHOOSE i \in Differ : \A j \in Differ : i <= j
          IN Component(ca, k) > Component(cb, k)

----------------------------------------------------------------------------
(* The cipher (crypt.h, hexCrypt.h).  The envelope is one line over the    *)
(* base64url alphabet: a tag that binds the password, then the plaintext   *)
(* substituted character by character under a password-derived key.        *)

Passwords == {"pw1", "pw2"}

PlainChars == <<"{", "a", "\n", "}">>

EnvChars == <<"Q", "R", "S", "T">>

Key(password) == IF password = "pw1" THEN 1 ELSE 3

Tag(password) == IF password = "pw1" THEN "M" ELSE "N"

PosIn(seq, c) == CHOOSE i \in 1..Len(seq) : seq[i] = c

IsIn(seq, c) == \E i \in 1..Len(seq) : seq[i] = c

crypt_encrypt(text, password) ==
  <<Tag(password)>> \o
  [i \in 1..Len(text) |->
     EnvChars[((PosIn(PlainChars, text[i]) - 1 + Key(password)) % Len(EnvChars)) + 1]]

(* crypt_decrypt: NULL when the envelope is malformed or the tag does not  *)
(* match the password.                                                     *)
crypt_decrypt(envelope, password) ==
  IF envelope = NULL \/ envelope = <<>> THEN NULL
  ELSE IF \E i \in 2..Len(envelope) : ~IsIn(EnvChars, envelope[i]) THEN NULL
  ELSE IF envelope[1] # Tag(password) THEN NULL
  ELSE [i \in 1..(Len(envelope) - 1) |->
          PlainChars[((PosIn(EnvChars, envelope[i + 1]) - 1 + Len(EnvChars)
                       - Key(password)) % Len(EnvChars)) + 1]]

(* list_at(list, index): the node at index, counted from the end when      *)
(* index is negative; NULL when there is none.                             *)
list_at(items, index) ==
  IF index >= 0
  THEN IF index + 1 <= Len(items) THEN items[index + 1] ELSE NULL
  ELSE IF Len(items) + index >= 0 THEN items[Len(items) + index + 1] ELSE NULL

(* The result of a call: what it returns, the error variable, the decoders *)
(* it invoked, strtok's save pointer, the working copies it left behind.   *)
Result(r, e, inv, olds, leaked, crash) ==
  [ret |-> r, errno |-> e, invoked |-> inv, olds |-> olds,
   leaked |-> leaked, crashed |-> crash]

(* A function of this module that a call went into, and what it was given. *)
Invocation(fn, password) ==
  [fn |-> fn, password |-> password, lines |-> <<>>, cipher |-> NULL,
   cipher_len |-> 0, nonce |-> NULL, salt |-> NULL]

(* crypt_decryptFromList(lines, password): decodes the envelope, the first *)
(* line of the list.                                                       *)
crypt_decryptFromList(items, password, olds, errno0) ==
  LET plain == crypt_decrypt(list_at(items, 0), password)
  IN Result(plain, IF plain = NULL THEN "mac_mismatch" ELSE errno0,
            <<[Invocation("crypt_decryptFromList", password)
                 EXCEPT !.lines = items]>>,
            olds, 0, FALSE)

(* crypt_decrypt_hex(cipher, cipher_len, password, nonce, salt): the first *)
(* cipher_len characters decoded, or NULL when the MAC does not verify     *)
(* (hexOk says which).                                                     *)
crypt_decrypt_hex(cipher_encoded, cipher_len, password, nonce, salt, hexOk) ==
  IF hexOk
  THEN SubSeq(cipher_encoded, 1,
              IF cipher_len <= Len(cipher_encoded) THEN cipher_len
              ELSE Len(cipher_encoded))
  ELSE NULL

----------------------------------------------------------------------------
(* cryptUtils.c                                                            *)

(* The check with its test of the cipher length left out.                  *)
hexFieldsMalformed_noLength(cipher_len, salt_encoded, nonce_encoded, cipher_encoded) ==
  salt_encoded = NULL \/ nonce_encoded = NULL \/ cipher_encoded = NULL

(* cryptUtils.c:48-49: the check of the parsed legacy fields.              *)
hexFieldsMalformed(cipher_len, salt_encoded, nonce_encoded, cipher_encoded) ==
  cipher_len = 0 \/ salt_encoded = NULL \/ nonce_encoded = NULL
    \/ cipher_encoded = NULL

(* cryptUtils.c:54-55: the call of the hex decryption.                     *)
hexInvocation(cipher_len, salt_encoded, nonce_encoded, cipher_encoded, password) ==
  [Invocation("crypt_decrypt_hex", password)
     EXCEPT !.cipher = cipher_encoded, !.cipher_len = cipher_len,
            !.nonce = nonce_encoded, !.salt = salt_encoded]

(* secFree(p): the number of buffers it releases; none for NULL.           *)
secFree(p) == IF p = NULL THEN 0 ELSE 1

(* What strtok(NULL, ":") starts from when fileText is NULL: the text the  *)
(* static save pointer was left at by an earlier call.  That text's buffer *)
(* has been released (or the pointer was never set), so the read is        *)
(* undefined: ub says what the build makes of it, the old text still       *)
(* there ("intact"), zeroed memory ("zeroed"), or a fault ("crash").       *)
UBOutcomes == {"intact", "zeroed", "crash"}

staleText(olds, ub) == IF ub = "intact" THEN olds.rest ELSE <<>>

(* The outcomes to choose from for a call with this cipher text: there is  *)
(* an undefined read only when it is absent.                               *)
UBFor(cipher) == IF cipher = NULL THEN UBOutcomes ELSE {"zeroed"}

(* decryptHexFileContent(cipher, password), cryptUtils.c:42-58.            *)
decryptHexFileContent(cipher, password, olds, errno0, ub, hexOk) ==
  LET fileText == oidc_strcopy(cipher)
      stale    == fileText = NULL
      t1 == strtok(IF stale THEN staleText(olds, ub) ELSE fileText, ":")
      t2 == strtok(t1.rest, ":")
      t3 == strtok(t2.rest, ":")
      t4 == strtok(t3.rest, ":")
      cipher_len     == strToInt(t1.tok)
      salt_encoded   == t2.tok
      nonce_encoded  == t3.tok
      cipher_encoded == t4.tok
      \* after secFree(fileText) the save pointer dangles into the copy
      alloc == IF fileText = NULL THEN 0 ELSE 1
      olds1 == [rest |-> t4.rest,
                state |-> IF stale THEN olds.state ELSE "released"]
      decrypted == crypt_decrypt_hex(cipher_encoded, cipher_len, password,
                                     nonce_encoded, salt_encoded, hexOk)
      entry == [Invocation("decryptHexFileContent", password)
                  EXCEPT !.cipher = cipher]
  IN IF stale /\ ub = "crash"
     THEN Result(NULL, errno0, <<entry>>, olds, 0, TRUE)
     ELSE IF hexFieldsMalformed(cipher_len, salt_encoded, nonce_encoded,
                                cipher_encoded)
     THEN Result(NULL, "OIDC_ECRYPM", <<entry>>, olds1,
                 alloc - secFree(fileText), FALSE)
     ELSE Result(decrypted,
                 IF decrypted = NULL THEN "mac_mismatch" ELSE errno0,
                 <<entry, hexInvocation(cipher_len, salt_encoded,
                                        nonce_encoded, cipher_encoded,
                                        password)>>,
                 olds1, alloc - secFree(fileText), FALSE)

(* The version line taken from the last line whatever the list's length.   *)
versionLineOf_anyLength(items) == list_at(items, -1)

(* cryptUtils.c:77-78: the version line is the last line of a list of more *)
(* than one line.                                                          *)
versionLineOf(items) ==
  LET node == list_at(items, -1)
  IN IF Len(items) > 1 THEN (IF node # NULL THEN node ELSE NULL) ELSE NULL

(* decryptLinesList(lines, password), cryptUtils.c:70-87.                  *)
decryptLinesList(lines, password, olds, errno0, ub, hexOk) ==
  IF lines.isNull
  THEN Result(NULL, oidc_setArgNullFuncError, <<>>, olds, 0, FALSE)
  ELSE LET node         == list_at(lines.items, 0)
           cipher       == IF node # NULL THEN node ELSE NULL
           version_line == versionLineOf(lines.items)
           version      == versionLineToSimpleVersion(version_line)
       IN IF versionAtLeast(version, MIN_BASE64_VERSION)
          THEN crypt_decryptFromList(lines.items, password, olds, errno0)
          ELSE decryptHexFileContent(cipher, password, olds, errno0, ub, hexOk)

(* decryptFileContent(fileContent, password), cryptUtils.c:27-32.          *)
decryptFileContent(content, password, olds, errno0, ub, hexOk) ==
  decryptLinesList(delimitedStringToList(content, "\n"), password, olds,
                   errno0, ub, hexOk)

(* encryptText, cryptUtils.c:122-124.                                      *)
encryptText(text, password) == crypt_encrypt(text, password)

(* The two arguments of the format in the other order.                     *)
joinWithVersionLine_swapped(crypt, version_line) ==
  version_line \o <<"\n">> \o crypt

(* cryptUtils.c:136: oidc_sprintf("%s\n%s", crypt, version_line).          *)
joinWithVersionLine(crypt, version_line) == crypt \o <<"\n">> \o version_line

(* encryptWithVersionLine(text, password), cryptUtils.c:133-140, built     *)
(* with VERSION = version.                                                 *)
encryptWithVersionLine(text, password, version) ==
  LET crypt        == encryptText(text, password)
      version_line == simpleVersionToVersionLine(version)
  IN joinWithVersionLine(crypt, version_line)

----------------------------------------------------------------------------
(* Inputs of the decrypt and encrypt calls.                                *)

MaxLines == 2

MaxTextLen == 2

MaxCalls == 2

SeqsUpTo(S, n) == UNION {[1..k -> S] : k \in 0..n}

LegacyGood    == <<"2", ":", "a", ":", "b", ":", "c", "c">>
LegacyZeroLen == <<"0", ":", "a", ":", "b", ":", "c", "c">>
LegacyBadLen  == <<"x", ":", "a", ":", "b", ":", "c", "c">>
LegacyNoCiph  == <<"2", ":", "a", ":", "b">>
LegacyNoSalt  == <<"2", ":", ":", "b", ":", "c", "c">>
LegacyNoNonce == <<"2", ":", "a", ":", ":", "c", "c">>
LegacyNoLen   == <<":", "a", ":", "b", ":", "c", "c">>
LegacyLong    ==
  <<"2", ":", "a", ":", "b", ":", "c", "c", ":", "3", ":", "d", ":", "e",
    ":", "f", "f", "f">>

LegacyLines ==
  {LegacyGood, LegacyZeroLen, LegacyBadLen, LegacyNoCiph, LegacyNoSalt,
   LegacyNoNonce, LegacyNoLen, LegacyLong, <<>>}

Versions ==
  {<<"2", ".", "1", ".", "0">>, <<"2", ".", "0", ".", "9">>,
   <<"2", ".", "1">>, <<"3">>, <<"2", ".", "1", "0", ".", "0">>}

(* The versions a build that holds this code can carry: 2.1.0 and later.   *)
ProducingVersions ==
  {<<"2", ".", "1", ".", "0">>, <<"2", ".", "1", "0", ".", "0">>, <<"3">>,
   <<"2", ".", "1">>}

VersionLines == {simpleVersionToVersionLine(v) : v \in Versions}

Envelope1 == crypt_encrypt(<<"{", "a", "}">>, "pw1")

(* Lines a configuration file can hold: legacy lines, version lines, a     *)
(* version with no "@oidc-agent " before it, an envelope.                  *)
Lines ==
  {LegacyGood, LegacyNoCiph, <<>>} \cup VersionLines
    \cup {<<"2", ".", "1", ".", "0">>, Envelope1}

(* The lines of the lists that are loaded one after the other.             *)
ChainLines ==
  {LegacyLong, simpleVersionToVersionLine(<<"2", ".", "1", ".", "0">>)}

List(items) == [isNull |-> FALSE, items |-> items]

NullList == [isNull |-> TRUE, items |-> <<>>]

Texts == SeqsUpTo({PlainChars[i] : i \in 1..Len(PlainChars)}, MaxTextLen)

RECURSIVE JoinLines(_)
JoinLines(items) ==
  IF items = <<>> THEN <<>>
  ELSE IF Len(items) = 1 THEN items[1]
  ELSE items[1] \o <<"\n">> \o JoinLines(Tail(items))

NoCall ==
  [fn |-> "none", lines |-> NullList, cipher |-> NULL, content |-> NULL,
   password |-> "pw1", oldsBefore |-> "unset"]

NoSave == [text |-> NULL, password |-> "pw1", crypt |-> NULL, version |-> NULL]

CryptInit ==
  /\ oidc_errno = "OIDC_SUCCESS"
  /\ call = NoCall
  /\ ret = NULL
  /\ invoked = <<>>
  /\ strtok_olds = [rest |-> <<>>, state |-> "unset"]
  /\ heapLive = 0
  /\ crashed = FALSE
  /\ fileContent = NULL
  /\ saved = NoSave
  /\ ncalls = 0

(* The effects of a decrypt call on the state.                             *)
Returns(r) ==
  /\ ret' = r.ret
  /\ oidc_errno' = r.errno
  /\ invoked' = r.invoked
  /\ strtok_olds' = r.olds
  /\ heapLive' = heapLive + r.leaked
  /\ crashed' = r.crashed
  /\ ncalls' = ncalls + 1

DecryptLinesList(lines, password, ub, hexOk) ==
  /\ ~crashed
  /\ call' = [NoCall EXCEPT !.fn = "decryptLinesList", !.lines = lines,
                            !.password = password,
                            !.oldsBefore = strtok_olds.state]
  /\ Returns(decryptLinesList(lines, password, strtok_olds, oidc_errno, ub,
                              hexOk))
  /\ UNCHANGED <<fileContent, saved>>

DecryptHexFileContent(cipher, password, ub, hexOk) ==
  /\ ~crashed
  /\ call' = [NoCall EXCEPT !.fn = "decryptHexFileContent",
                            !.cipher = cipher, !.password = password,
                            !.oldsBefore = strtok_olds.state]
  /\ Returns(decryptHexFileContent(cipher, password, strtok_olds, oidc_errno,
                                   ub, hexOk))
  /\ UNCHANGED <<fileContent, saved>>

DecryptFileContent(content, password, ub, hexOk) ==
  /\ ~crashed
  /\ call' = [NoCall EXCEPT !.fn = "decryptFileContent",
                            !.content = content, !.password = password,
                            !.oldsBefore = strtok_olds.state]
  /\ Returns(decryptFileContent(content, password, strtok_olds, oidc_errno,
                                ub, hexOk))
  /\ UNCHANGED <<fileContent, saved>>

EncryptWithVersionLine(text, password, version) ==
  /\ ~crashed
  /\ call' = [NoCall EXCEPT !.fn = "encryptWithVersionLine",
                            !.content = text, !.password = password]
  /\ fileContent' = encryptWithVersionLine(text, password, version)
  /\ saved' = [text |-> text, password |-> password,
               crypt |-> encryptText(text, password), version |-> version]
  /\ ret' = fileContent'
  /\ invoked' = <<>>
  /\ ncalls' = ncalls + 1
  /\ UNCHANGED <<oidc_errno, strtok_olds, heapLive, crashed>>

----------------------------------------------------------------------------
(* oidc_jwk.c.  A text that is not character data of interest (a URI, a    *)
(* path, a JWK's JSON) is a one-element sequence holding it; a key in      *)
(* memory (cjose_jwk_t* ) is <<"jwk", its JSON>>.                           *)

MaxKeys == 3

JWK_USE_SIG == <<"sig">>

JWK_USE_ENC == <<"enc">>

KeyTexts == {<<"jwk_a">>, <<"jwk_b">>, <<"not_a_jwk">>}

(* cjose_jwk_import: NULL for a text that is no JWK.                       *)
cjose_jwk_import(key) ==
  IF key = <<"not_a_jwk">> THEN NULL ELSE <<"jwk", key[1]>>

(* import_jwk(key), oidc_jwk.c:52-67.                                      *)
import_jwk(key, errno0) ==
  IF key = NULL
  THEN [jwk |-> NULL, errno |-> oidc_setArgNullFuncError, imported |-> <<>>]
  ELSE LET jwk == cjose_jwk_import(key)
       IN [jwk |-> jwk,
           errno |-> IF jwk = NULL THEN oidc_setInternalError ELSE errno0,
           imported |-> <<key>>]

(* listValid(keys): a list that is there and, when holdsEmpty is FALSE,    *)
(* not empty (utils/listUtils.h; whether it takes an empty list is left    *)
(* open).                                                                  *)
listValid(keys, holdsEmpty) ==
  ~keys.isNull /\ (holdsEmpty \/ Len(keys.items) > 0)

(* The first key taken whenever there is one.                              *)
soleKey_first(keys) ==
  IF Len(keys.items) >= 1 THEN list_at(keys.items, 0) ELSE NULL

(* oidc_jwk.c:92-99: the choice of the key among the parsed keys.          *)
soleKey(keys) == IF Len(keys.items) = 1 THEN list_at(keys.items, 0) ELSE NULL

(* The error left when no key is chosen, oidc_jwk.c:96.                    *)
noSoleKeyError == "OIDC_NOTIMPL"

(* import_jwk_fromURI(jwk_uri, cert_path), oidc_jwk.c:69-103.  in.res is   *)
(* what httpsGET answers (fetched, and the document's keys member).        *)
import_jwk_fromURI(in, errno0) ==
  LET none(e) == [jwk |-> NULL, errno |-> e, imported |-> <<>>]
      \* JSONArrayStringToList: no list for a value that is no array
      keys == IF in.res.isArray THEN List(in.res.keys) ELSE NullList
  IN IF in.jwk_uri = NULL \/ in.cert_path = NULL
     THEN none(oidc_setArgNullFuncError)
     ELSE IF ~in.res.fetched THEN none("http_error")
     ELSE IF ~in.res.hasKeys THEN none("OIDC_EJWKURINO")
     ELSE IF ~listValid(keys, in.holdsEmpty) THEN none("OIDC_EJWKURINO")
     ELSE IF soleKey(keys) # NULL
     THEN import_jwk(soleKey(keys), errno0)
     ELSE none(noSoleKeyError)

(* cjose_jwk_to_json, then the "use" member added (oidc_jwk.c:33-49).      *)
jwkJson(jwk, withPrivate, use) ==
  <<jwk[2], IF withPrivate = 1 THEN "with_private" ELSE "public_only">> \o use

(* export_jwk(jwk, withPrivate, use), oidc_jwk.c:27-50.                    *)
export_jwk(jwk, withPrivate, use, errno0, toJsonOk) ==
  IF jwk = NULL
  THEN [str |-> NULL, errno |-> oidc_setArgNullFuncError]
  ELSE IF ~toJsonOk
  THEN [str |-> NULL, errno |-> oidc_setInternalError]
  ELSE [str |-> jwkJson(jwk, withPrivate, use), errno |-> errno0]

(* export_jwk_sig, oidc_jwk.c:19-21.                                       *)
export_jwk_sig(jwk, withPrivate, errno0, toJsonOk) ==
  export_jwk(jwk, withPrivate, JWK_USE_SIG, errno0, toJsonOk)

(* createRSAKey(), oidc_jwk.c:105-117; rsaOk: whether key generation       *)
(* (cjose_jwk_create_RSA_random) succeeds.                                 *)
createRSAKey(errno0, rsaOk) ==
  IF rsaOk THEN [jwk |-> <<"jwk", "rsa_generated">>, errno |-> errno0]
  ELSE [jwk |-> NULL, errno |-> oidc_setInternalError]

(* createSigningKey(), oidc_jwk.c:119-125.                                 *)
createSigningKey(errno0, rsaOk, privOk, pubOk) ==
  LET k        == createRSAKey(errno0, rsaOk)
      key_priv == export_jwk_sig(k.jwk, 1, k.errno, privOk)
      key_pub  == export_jwk_sig(k.jwk, 0, key_priv.errno, pubOk)
  IN [priv |-> key_priv.str, pub |-> key_pub.str, errno |-> key_pub.errno,
      errnoAfterCreate |-> k.errno]

NoDoc == [fetched |-> FALSE, hasKeys |-> FALSE, isArray |-> FALSE, keys |-> <<>>]

Uri == <<"https://idp/jwks">>

CertPath == <<"/etc/ssl/certs">>

JwkInput(uri, cert, res, holdsEmpty) ==
  [jwk_uri |-> uri, cert_path |-> cert, res |-> res, holdsEmpty |-> holdsEmpty]

(* What import_jwk_fromURI can be given and answered.                      *)
JwkInputs ==
  {JwkInput(NULL, CertPath, NoDoc, FALSE), JwkInput(Uri, NULL, NoDoc, FALSE),
   JwkInput(Uri, CertPath, NoDoc, FALSE),
   JwkInput(Uri, CertPath, [NoDoc EXCEPT !.fetched = TRUE], FALSE),
   JwkInput(Uri, CertPath, [NoDoc EXCEPT !.fetched = TRUE, !.hasKeys = TRUE],
            FALSE)}
  \cup
  {JwkInput(Uri, CertPath,
            [fetched |-> TRUE, hasKeys |-> TRUE, isArray |-> TRUE, keys |-> ks],
            he) : ks \in SeqsUpTo(KeyTexts, MaxKeys), he \in BOOLEAN}

NoJwkRet == [jwk |-> NULL, priv |-> NULL, pub |-> NULL]

NoJwkCall ==
  [fn |-> "none", in |-> JwkInput(NULL, NULL, NoDoc, FALSE), rsaOk |-> FALSE,
   errnoAfterCreate |-> "OIDC_SUCCESS"]

JwkInit ==
  /\ jwkCall = NoJwkCall
  /\ jwkRet = NoJwkRet
  /\ imported = <<>>

Import_jwk_fromURI(in) ==
  LET r == import_jwk_fromURI(in, oidc_errno)
  IN /\ jwkCall' = [NoJwkCall EXCEPT !.fn = "import_jwk_fromURI", !.in = in]
     /\ jwkRet' = [NoJwkRet EXCEPT !.jwk = r.jwk]
     /\ imported' = r.imported
     /\ oidc_errno' = r.errno

CreateSigningKey(rsaOk, privOk, pubOk) ==
  LET r == createSigningKey(oidc_errno, rsaOk, privOk, pubOk)
  IN /\ jwkCall' = [NoJwkCall EXCEPT !.fn = "createSigningKey",
                                     !.rsaOk = rsaOk,
                                     !.errnoAfterCreate = r.errnoAfterCreate]
     /\ jwkRet' = [NoJwkRet EXCEPT !.priv = r.priv, !.pub = r.pub]
     /\ imported' = <<>>
     /\ oidc_errno' = r.errno

----------------------------------------------------------------------------
(* oidc-add_options.h.  argp_parse is called without ARGP_NO_EXIT:         *)
(* argp_usage and argp_state_help(ARGP_HELP_STD_HELP) end the process, and *)
(* an option for which parse_opt returns ARGP_ERR_UNKNOWN ends it with     *)
(* argp's error.                                                           *)

MaxArgv == 3

OPT_SECCOMP == "OPT_SECCOMP"

FlagKeys == {"r", "R", "g", "v", "p", "l", "x", "X", OPT_SECCOMP}

SpecialKeys ==
  {"ARGP_KEY_INIT", "ARGP_KEY_NO_ARGS", "ARGP_KEY_SUCCESS", "ARGP_KEY_FINI"}

LifetimeArgs == {<<"6", "0">>, <<"0">>, <<"x", "1">>, <<>>}

AccountNames == {<<"acct1">>, <<"acct2">>}

(* initArguments, oidc-add_options.h:100-113.  args is the array args[1]:  *)
(* a function of the indices it holds.                                     *)
initArguments ==
  [remove |-> 0, removeAll |-> 0, debug |-> 0, verbose |-> 0, list |-> 0,
   print |-> 0, lifetime |-> [argProvided |-> 0, lifetime |-> 0],
   lock |-> 0, unlock |-> 0, args |-> [i \in {0} |-> NULL], seccomp |-> 0]

(* args[n] = arg: a write at an index the array does not hold lands        *)
(* outside it, which the function's domain then shows.                     *)
writeArg(args, n, arg) ==
  [i \in (DOMAIN args) \cup {n} |-> IF i = n THEN arg ELSE args[i]]

(* oidc-add_options.h:74: more positional arguments than args holds.       *)
tooManyArgs(n) == n >= 1

(* remove counted among the options that need no account.                 *)
needsNoAccount_remove(a) ==
  a.list # 0 \/ a.lock # 0 \/ a.unlock # 0 \/ a.removeAll # 0 \/ a.remove # 0

(* oidc-add_options.h:80-81: the options that need no account.             *)
needsNoAccount(a) ==
  a.list # 0 \/ a.lock # 0 \/ a.unlock # 0 \/ a.removeAll # 0

ParseResult(a, outcome) == [arguments |-> a, outcome |-> outcome]

(* parse_opt(key, arg, state), oidc-add_options.h:51-91.  The outcome is   *)
(* its return value (0, ARGP_ERR_UNKNOWN), or the exit it ran into.        *)
parse_opt(key, arg, a, n) ==
  CASE key = "r" -> ParseResult([a EXCEPT !.remove = 1], "0")
    [] key = "R" -> ParseResult([a EXCEPT !.removeAll = 1], "0")
    [] key = "g" -> ParseResult([a EXCEPT !.debug = 1], "0")
    [] key = "v" -> ParseResult([a EXCEPT !.verbose = 1], "0")
    [] key = "p" -> ParseResult([a EXCEPT !.print = 1], "0")
    [] key = "l" -> ParseResult([a EXCEPT !.list = 1], "0")
    [] key = "x" -> ParseResult([a EXCEPT !.lock = 1], "0")
    [] key = "X" -> ParseResult([a EXCEPT !.unlock = 1], "0")
    [] key = "t" ->
         IF arg = <<>> \/ ~IsDigit(arg[1])
         THEN ParseResult(a, "ARGP_ERR_UNKNOWN")
         ELSE ParseResult(
                [a EXCEPT !.lifetime =
                   [argProvided |-> 1, lifetime |-> strToInt(arg)]], "0")
    [] key = OPT_SECCOMP -> ParseResult([a EXCEPT !.seccomp = 1], "0")
    [] key = "h" -> ParseResult(a, "exit_help")
    [] key = "ARGP_KEY_ARG" ->
         IF tooManyArgs(n) THEN ParseResult(a, "exit_usage")
         ELSE ParseResult([a EXCEPT !.args = writeArg(a.args, n, arg)], "0")
    [] key = "ARGP_KEY_END" ->
         IF needsNoAccount(a) THEN ParseResult(a, "0")
         ELSE IF n < 1 THEN ParseResult(a, "exit_usage")
         ELSE ParseResult(a, "0")
    [] OTHER -> ParseResult(a, "ARGP_ERR_UNKNOWN")

ArgsInit ==
  /\ arguments = initArguments
  /\ arg_num = 0
  /\ argpState = "parsing"
  /\ fed = [options |-> 0, positionals |-> 0, help |-> FALSE,
            badLifetime |-> FALSE]

(* argp feeds one option of the command line.                              *)
ParseOption(key, arg) ==
  LET r == parse_opt(key, arg, arguments, arg_num)
  IN /\ argpState = "parsing"
     /\ fed.options + fed.positionals < MaxArgv
     /\ arguments' = r.arguments
     /\ argpState' = CASE r.outcome = "0" -> "parsing"
                       [] r.outcome = "ARGP_ERR_UNKNOWN" -> "exit_error"
                       [] OTHER -> r.outcome
     /\ fed' = [fed EXCEPT !.options = @ + 1,
                           !.help = @ \/ key = "h",
                           !.badLifetime = @ \/ r.outcome = "ARGP_ERR_UNKNOWN"]
     /\ UNCHANGED arg_num

(* argp feeds one positional argument; arg_num counts those taken.         *)
ParseArg(arg) ==
  LET r == parse_opt("ARGP_KEY_ARG", arg, arguments, arg_num)
  IN /\ argpState = "parsing"
     /\ fed.options + fed.positionals < MaxArgv
     /\ arguments' = r.arguments
     /\ argpState' = IF r.outcome = "0" THEN "parsing" ELSE r.outcome
     /\ arg_num' = IF r.outcome = "0" THEN arg_num + 1 ELSE arg_num
     /\ fed' = [fed EXCEPT !.positionals = @ + 1]

(* argp's own keys, which parse_opt does not know: its ARGP_ERR_UNKNOWN is *)
(* ignored for them.                                                       *)
ParseSpecial(key) ==
  LET r == parse_opt(key, NULL, arguments, arg_num)
  IN /\ argpState = "parsing"
     /\ r.outcome = "ARGP_ERR_UNKNOWN"
     /\ arguments' = r.arguments
     /\ UNCHANGED <<arg_num, argpState, fed>>

(* The command line is at its end: ARGP_KEY_END.                           *)
ParseEnd ==
  LET r == parse_opt("ARGP_KEY_END", NULL, arguments, arg_num)
  IN /\ argpState = "parsing"
     /\ arguments' = r.arguments
     /\ argpState' = IF r.outcome = "0" THEN "ended" ELSE r.outcome
     /\ UNCHANGED <<arg_num, fed>>

----------------------------------------------------------------------------
(* randomString(len), cryptUtils.c:142-155.                                *)

MaxLen == 3

(* Characters of the base64url alphabet: letters, digits, '-' and '_'.     *)
Base64UrlChars == {"a", "7", "-", "_"}

isalnum(c) == c \in {"a", "7"}

(* str[0]: the terminating NUL when the string is empty.                   *)
FirstChar(s) == IF s = <<>> THEN "\\0" ELSE s[1]

HasAlnum(s) == \E i \in 1..Len(s) : isalnum(s[i])

(* oidc_memshiftr(str, len): every character one place to the right, the   *)
(* last one to the front.                                                  *)
oidc_memshiftr(s, n) ==
  IF n = 0 THEN s
  ELSE <<s[n]>> \o SubSeq(s, 1, n - 1) \o SubSeq(s, n + 1, Len(s))

(* cryptUtils.c:146: the loop condition.                                   *)
mustShift(k, n, s) == k < n /\ ~isalnum(FirstChar(s))

(* The comparison off by one.                                              *)
retryNeeded_offByOne(k, n) == k > n

(* cryptUtils.c:150: every position was tried.                             *)
retryNeeded(k, n) == k >= n

RandInit ==
  /\ rs_pc = "idle"
  /\ len = 0
  /\ str = <<>>
  /\ shifts = 0
  /\ filled = <<>>

(* A caller asks for a string of n characters.                             *)
RandomCall(n) ==
  /\ rs_pc = "idle"
  /\ len' = n
  /\ rs_pc' = "fill"
  /\ UNCHANGED <<str, shifts, filled>>

(* secAlloc and randomFillBase64UrlSafe, cryptUtils.c:143-145.             *)
Fill(buf) ==
  /\ rs_pc = "fill"
  /\ str' = buf
  /\ filled' = buf
  /\ shifts' = 0
  /\ rs_pc' = "loop"
  /\ UNCHANGED len

FillAny == \E buf \in [1..len -> Base64UrlChars] : Fill(buf)

(* The random fill gives a buffer that holds an alphanumeric character.    *)
FillAlnum ==
  \E buf \in [1..len -> Base64UrlChars] : HasAlnum(buf) /\ Fill(buf)

(* One turn of the loop, cryptUtils.c:146-149.                             *)
Shift ==
  /\ rs_pc = "loop"
  /\ mustShift(shifts, len, str)
  /\ str' = oidc_memshiftr(str, len)
  /\ shifts' = shifts + 1
  /\ UNCHANGED <<rs_pc, len, filled>>

(* The loop is left, cryptUtils.c:150-154: return str, or give it up.      *)
LeaveLoop ==
  /\ rs_pc = "loop"
  /\ ~mustShift(shifts, len, str)
  /\ rs_pc' = IF retryNeeded(shifts, len) THEN "retry" ELSE "done"
  /\ UNCHANGED <<len, str, shifts, filled>>

(* secFree(str); return randomString(len), cryptUtils.c:151-152.           *)
Retry ==
  /\ rs_pc = "retry"
  /\ str' = <<>>
  /\ rs_pc' = "fill"
  /\ UNCHANGED <<len, shifts, filled>>

----------------------------------------------------------------------------
(* Specifications.                                                         *)

Init == CryptInit /\ JwkInit /\ ArgsInit /\ RandInit

(* One load, or one save and the load of what it saved.                    *)
LoadNext ==
  /\ \/ \E items \in SeqsUpTo(Lines, MaxLines), pw \in Passwords,
           hexOk \in BOOLEAN :
          \E ub \in UBFor(list_at(items, 0)) :
            /\ ncalls = 0
            /\ DecryptLinesList(List(items), pw, ub, hexOk)
     \/ \E items \in SeqsUpTo(Lines, MaxLines), pw \in Passwords,
           hexOk \in BOOLEAN :
          /\ ncalls = 0
          /\ DecryptFileContent(JoinLines(items), pw, "zeroed", hexOk)
     \/ \E text \in Texts, pw \in Passwords, v \in ProducingVersions :
          /\ ncalls = 0
          /\ EncryptWithVersionLine(text, pw, v)
     \/ \E pw \in Passwords, hexOk \in BOOLEAN :
          /\ ncalls = 1
          /\ call.fn = "encryptWithVersionLine"
          /\ DecryptFileContent(fileContent, pw, "zeroed", hexOk)
  /\ UNCHANGED <<jwkVars, argsVars, randVars>>

SpecLoad == Init /\ [][LoadNext]_vars

(* Decrypt calls, one after the other.                                     *)
CryptNext ==
  /\ ncalls < MaxCalls
  /\ \/ \E cipher \in LegacyLines \cup {NULL}, pw \in Passwords,
           hexOk \in BOOLEAN :
          \E ub \in UBFor(cipher) :
            DecryptHexFileContent(cipher, pw, ub, hexOk)
     \/ \E lines \in {List(i) : i \in SeqsUpTo(ChainLines, MaxLines)}
                       \cup {NullList},
           pw \in Passwords, hexOk \in BOOLEAN :
          \E ub \in UBFor(list_at(lines.items, 0)) :
            DecryptLinesList(lines, pw, ub, hexOk)
  /\ UNCHANGED <<jwkVars, argsVars, randVars>>

SpecCrypt == Init /\ [][CryptNext]_vars

JwkNext ==
  /\ \/ \E in \in JwkInputs : Import_jwk_fromURI(in)
     \/ \E rsaOk \in BOOLEAN, privOk \in BOOLEAN, pubOk \in BOOLEAN :
          CreateSigningKey(rsaOk, privOk, pubOk)
  /\ UNCHANGED <<cryptVars, argsVars, randVars>>

SpecJwk == Init /\ [][JwkNext]_vars

ArgsNext ==
  /\ \/ \E key \in FlagKeys \cup {"h"} : ParseOption(key, NULL)
     \/ \E arg \in LifetimeArgs : ParseOption("t", arg)
     \/ \E arg \in AccountNames : ParseArg(arg)
     \/ \E key \in SpecialKeys : ParseSpecial(key)
     \/ ParseEnd
  /\ UNCHANGED <<oidc_errno, cryptVars, jwkVars, randVars>>

SpecArgs == Init /\ [][ArgsNext]_vars

RandNext ==
  /\ \/ \E n \in 0..MaxLen : RandomCall(n)
     \/ FillAny
     \/ Shift
     \/ LeaveLoop
     \/ Retry
  /\ UNCHANGED <<oidc_errno, cryptVars, jwkVars, argsVars>>

(* The steps of randomString are taken as long as they can be, and the     *)
(* random fill does not hold back an alphanumeric character for ever.      *)
SpecRandom ==
  /\ Init
  /\ [][RandNext]_vars
  /\ WF_vars(RandNext)
  /\ SF_vars(FillAlnum /\ UNCHANGED <<oidc_errno, cryptVars, jwkVars, argsVars>>)

----------------------------------------------------------------------------
(* Properties of loading and saving (SpecLoad).                            *)

InvokedOf(fn) == {i \in 1..Len(invoked) : invoked[i].fn = fn}

(* The last call went to the Modern decoder, and only to it.               *)
ModernRouted ==
  /\ Cardinality(InvokedOf("crypt_decryptFromList")) = 1
  /\ InvokedOf("decryptHexFileContent") = {}

(* The last call went to the Legacy decoder, given line, and only to it.   *)
LegacyRouted(line) ==
  /\ Cardinality(InvokedOf("decryptHexFileContent")) = 1
  /\ InvokedOf("crypt_decryptFromList") = {}
  /\ \A i \in InvokedOf("decryptHexFileContent") : invoked[i].cipher = line

(* A version line that names a version >= 2.1.0.                           *)
IsModernVersionLine(line) ==
  /\ HasPrefix(line, VersionLinePrefix)
  /\ versionAtLeast(versionLineToSimpleVersion(line), MIN_BASE64_VERSION)

(* A list of at least one line was loaded.                                 *)
LoadedList ==
  /\ call.fn = "decryptLinesList"
  /\ ~call.lines.isNull
  /\ Len(call.lines.items) >= 1

LoadedItems == call.lines.items

LastLoaded == LoadedItems[Len(LoadedItems)]

(* C1, as stated: for every non-empty list of lines, a list of one line    *)
(* included, the Modern decoder is used if and only if the last line is a  *)
(* version line whose version is >= 2.1.0, and the Legacy decoder is       *)
(* applied to the first line otherwise; one decoder per load.              *)
C1_RoutingByLastLine ==
  LoadedList =>
    /\ ModernRouted <=> IsModernVersionLine(LastLoaded)
    /\ ~ModernRouted => LegacyRouted(LoadedItems[1])

(* C1, amended: for every list of two or more lines the Modern decoder is  *)
(* used if and only if the last line is a version line whose version is    *)
(* >= 2.1.0; a list of one line always goes to the Legacy decoder, which   *)
(* is applied to the first line in every case the Modern one is not used;  *)
(* one decoder per load.                                                   *)
C1_RoutingByLastLineOfSeveral ==
  LoadedList =>
    /\ ModernRouted <=>
         (Len(LoadedItems) >= 2 /\ IsModernVersionLine(LastLoaded))
    /\ ~ModernRouted => LegacyRouted(LoadedItems[1])

(* A single line that is a version line >= 2.1.0 was loaded and went to    *)
(* the Legacy decoder.                                                     *)
C1_Witness ==
  /\ LoadedList
  /\ Len(LoadedItems) = 1
  /\ IsModernVersionLine(LastLoaded)
  /\ LegacyRouted(LoadedItems[1])

(* The last call loaded what the call before it saved, with its password.  *)
LoadedSaved ==
  /\ ncalls = 2
  /\ call.fn = "decryptFileContent"
  /\ call.content = fileContent
  /\ call.password = saved.password

(* C2: loading what encryptWithVersionLine saved, with the same password,  *)
(* returns the plaintext; the saved text is the envelope, a newline and    *)
(* the version line of the producing version as its last line; the load    *)
(* goes to the Modern decoder and never to the Legacy one, and the decoder *)
(* is given the envelope that encrypt produced.                            *)
C2_SaveLoadRoundTrip ==
  LoadedSaved =>
    /\ ret = saved.text
    /\ SplitFields(fileContent, "\n")
         = <<saved.crypt, VersionLinePrefix \o saved.version>>
    /\ ModernRouted
    /\ \A i \in InvokedOf("crypt_decryptFromList") :
         /\ list_at(invoked[i].lines, 0) = saved.crypt
         /\ invoked[i].password = saved.password

(* A plaintext that holds a newline was saved and loaded back.             *)
C2_Witness ==
  /\ LoadedSaved
  /\ Len(saved.text) = 2
  /\ saved.text[1] = "\n"
  /\ ret = saved.text

----------------------------------------------------------------------------
(* Properties of the Legacy decoder (SpecCrypt).                           *)

HexEntries == InvokedOf("decryptHexFileContent")

HexDecryptions == InvokedOf("crypt_decrypt_hex")

(* The fields of a legacy line: what lies between its colons.              *)
LegacyFields(line) == SplitFields(line, ":")

(* decryptHexFileContent was entered with a line of four fields.           *)
HexOnFourFields ==
  /\ HexEntries # {}
  /\ \A i \in HexEntries :
       /\ invoked[i].cipher # NULL
       /\ Len(LegacyFields(invoked[i].cipher)) = 4

HexFields == LegacyFields(invoked[CHOOSE i \in HexEntries : TRUE].cipher)

HexFieldsBad ==
  strToInt(HexFields[1]) = 0 \/ \E k \in 2..4 : HexFields[k] = <<>>

(* C7: for a line <cipher_len>:<salt>:<nonce>:<cipher>, when cipher_len    *)
(* parses to 0 or the salt, the nonce or the cipher is missing, the call   *)
(* fails with the malformed-format error, returns NULL and does not invoke *)
(* the hex decryption; otherwise it invokes it exactly once, with the      *)
(* second field as salt, the third as nonce, the fourth as cipher text and *)
(* the first as cipher length.  The working copy is released either way.   *)
C7_LegacyValidation ==
  HexOnFourFields =>
    /\ heapLive = 0
    /\ HexFieldsBad =>
         /\ ret = NULL
         /\ oidc_errno = "OIDC_ECRYPM"
         /\ HexDecryptions = {}
    /\ ~HexFieldsBad =>
         /\ Cardinality(HexDecryptions) = 1
         /\ \A i \in HexDecryptions :
              /\ invoked[i].salt = HexFields[2]
              /\ invoked[i].nonce = HexFields[3]
              /\ invoked[i].cipher = HexFields[4]
              /\ invoked[i].cipher_len = strToInt(HexFields[1])

(* A well-formed legacy line was decrypted.                                *)
C7_Witness ==
  /\ HexOnFourFields
  /\ ~HexFieldsBad
  /\ Cardinality(HexDecryptions) = 1
  /\ ret # NULL

(* A call without a cipher text, made after a call that parsed one.        *)
AbsentCipherAfterParse ==
  /\ call.oldsBefore = "released"
  /\ \/ call.fn = "decryptHexFileContent" /\ call.cipher = NULL
     \/ /\ call.fn = "decryptLinesList"
        /\ ~call.lines.isNull
        /\ call.lines.items = <<>>

(* C9: whatever an earlier decryptHexFileContent call parsed, a later      *)
(* decryptLinesList on a list with no first line, and a later              *)
(* decryptHexFileContent on an absent cipher text, fails with the          *)
(* malformed-format error and invokes no decoder.                          *)
C9_AbsentCipherFailsCleanly ==
  AbsentCipherAfterParse =>
    /\ ~crashed
    /\ ret = NULL
    /\ oidc_errno = "OIDC_ECRYPM"
    /\ HexDecryptions = {}
    /\ InvokedOf("crypt_decryptFromList") = {}

----------------------------------------------------------------------------
(* Properties of the JWK functions (SpecJwk).                              *)

(* import_jwk_fromURI fetched the document and parsed its keys array.      *)
KeysParsed ==
  /\ jwkCall.fn = "import_jwk_fromURI"
  /\ jwkCall.in.jwk_uri # NULL
  /\ jwkCall.in.cert_path # NULL
  /\ jwkCall.in.res.fetched
  /\ jwkCall.in.res.hasKeys
  /\ jwkCall.in.res.isArray

ParsedKeys == jwkCall.in.res.keys

(* C3, as stated: with exactly one key the imported key is returned; for   *)
(* every other number of keys the call fails with jwks_ambiguous, imports  *)
(* no key and returns NULL.                                                *)
C3_SoleKeyOrAmbiguous ==
  KeysParsed =>
    /\ Len(ParsedKeys) = 1 =>
         /\ imported = <<ParsedKeys[1]>>
         /\ jwkRet.jwk = cjose_jwk_import(ParsedKeys[1])
    /\ Len(ParsedKeys) # 1 =>
         /\ oidc_errno = "jwks_ambiguous"
         /\ imported = <<>>
         /\ jwkRet.jwk = NULL

(* C3, amended: with exactly one key the result of importing it is         *)
(* returned; with two or more keys the call fails with OIDC_NOTIMPL and    *)
(* with no key with OIDC_EJWKURINO or OIDC_NOTIMPL, never with             *)
(* jwks_ambiguous; in the failing case no key is imported and the result   *)
(* is NULL.                                                                *)
C3_SoleKeyOrNotImplemented ==
  KeysParsed =>
    /\ Len(ParsedKeys) = 1 =>
         /\ imported = <<ParsedKeys[1]>>
         /\ jwkRet.jwk = cjose_jwk_import(ParsedKeys[1])
    /\ Len(ParsedKeys) >= 2 => oidc_errno = "OIDC_NOTIMPL"
    /\ Len(ParsedKeys) = 0 => oidc_errno \in {"OIDC_EJWKURINO", "OIDC_NOTIMPL"}
    /\ Len(ParsedKeys) # 1 =>
         /\ imported = <<>>
         /\ jwkRet.jwk = NULL

(* A document with two keys was refused.                                   *)
C3_Witness ==
  /\ KeysParsed
  /\ Len(ParsedKeys) = 2
  /\ oidc_errno = "OIDC_NOTIMPL"
  /\ jwkRet.jwk = NULL

(* C5: when RSA key generation fails, createSigningKey returns priv and    *)
(* pub both NULL and leaves the error kind that the failed key generation  *)
(* recorded.                                                               *)
C5_KeyGenerationErrorKept ==
  (jwkCall.fn = "createSigningKey" /\ ~jwkCall.rsaOk) =>
    /\ jwkRet.priv = NULL
    /\ jwkRet.pub = NULL
    /\ oidc_errno = jwkCall.errnoAfterCreate

----------------------------------------------------------------------------
(* Properties of the argument parser (SpecArgs).                           *)

ParsingOver == argpState # "parsing"

(* At most one positional argument, and one or an option that needs none.  *)
AccountGivenOrNotNeeded ==
  /\ fed.positionals <= 1
  /\ \/ fed.positionals = 1
     \/ arguments.list = 1 \/ arguments.lock = 1 \/ arguments.unlock = 1
     \/ arguments.removeAll = 1

ArgsWrittenAtZeroOnly == DOMAIN arguments.args = {0}

(* C6, as stated: for every sequence of options and positional arguments,  *)
(* parsing finishes without a usage error if and only if at most one       *)
(* positional argument was given and either one was given or one of list,  *)
(* lock, unlock, removeAll is set; args is written at index 0 only.        *)
C6_FinishesIffAccountOrNotNeeded ==
  /\ ArgsWrittenAtZeroOnly
  /\ ParsingOver => (argpState = "ended" <=> AccountGivenOrNotNeeded)

(* C6, amended: the same for every sequence that holds neither -h nor a -t *)
(* whose argument does not start with a digit (either ends the process     *)
(* before the end of the arguments is reached).                            *)
C6_FinishesIffAccountOrNotNeededNoHelp ==
  /\ ArgsWrittenAtZeroOnly
  /\ (ParsingOver /\ ~fed.help /\ ~fed.badLifetime) =>
       (argpState = "ended" <=> AccountGivenOrNotNeeded)

(* remove and print were given and no account: a usage error.              *)
C6_Witness ==
  /\ argpState = "exit_usage"
  /\ arguments.remove = 1
  /\ arguments.print = 1
  /\ fed.positionals = 0

----------------------------------------------------------------------------
(* Properties of randomString (SpecRandom).                                *)

IsRotationOf(a, b) ==
  /\ Len(a) = Len(b)
  /\ \E k \in 0..(Len(b) - 1) :
       \A i \in 1..Len(b) : a[i] = b[((i - 1 + k) % Len(b)) + 1]

(* C4: for n >= 1, what randomString(n) returns has exactly n characters,  *)
(* an alphanumeric first character, and is a rotation of the buffer the    *)
(* random fill produced; a buffer without any alphanumeric character is    *)
(* given up, and only such a buffer is.                                    *)
C4_ReturnsRotationWithAlnumFirst ==
  /\ (rs_pc = "done" /\ len >= 1) =>
       /\ Len(str) = len
       /\ isalnum(str[1])
       /\ IsRotationOf(str, filled)
       /\ HasAlnum(filled)
  /\ (rs_pc = "retry" /\ len >= 1) => ~HasAlnum(filled)

(* A string was returned after the buffer was rotated.                     *)
C4_Witness ==
  /\ rs_pc = "done"
  /\ len >= 2
  /\ shifts >= 1
  /\ str # filled

(* C8: for every n >= 0, also n = 0, randomString(n) eventually returns.   *)
C8_RandomStringReturns == (rs_pc = "fill") ~> (rs_pc = "done")

====
